---- MODULE Spec2Model ----
(***************************************************************************)
(* Model of RuWordNetInfo (src/ruwordnet.py): the indexes built by         *)
(* __init__ from the sense, synset and relation records, and the lookup    *)
(* methods that read (and, for show_synonyms, write) them.                 *)
(*                                                                         *)
(* Python dicts are modelled as functions whose DOMAIN is the key set      *)
(* (dict equality ignores key order), Python lists as sequences, strings   *)
(* as strings.  A method call that raises is recorded as a result with     *)
(* tag "raise"; a call that returns as a result with tag "ok".             *)
(***************************************************************************)
EXTENDS Integers, Sequences, FiniteSets, TLC

VARIABLES
    senses,           \* self.senses_N/V/A: the sense records of each part of speech
    synsets,          \* self.synsets_N/V/A: the synset records of each part of speech
    rel_files,        \* the records of the three relation files, in the order they are read
    word_synset,      \* self.word_synset_N/V/A
    synset_word,      \* self.synset_word_N/V/A
    defin,            \* self.defin_N/V/A
    basic_relations,  \* self.basic_relations
    built,            \* the four index families as __init__ left them (history variable)
    call,             \* the last method called, with its arguments
    result            \* what that call returned or raised

vars == <<senses, synsets, rel_files, word_synset, synset_word, defin,
          basic_relations, built, call, result>>

(***************************************************************************)
(* Bounds of the model.                                                    *)
(***************************************************************************)
MaxSenses == 2      \* sense records over the three senses files (main specification)
MaxSynsets == 1     \* synset records over the three synsets files (main specification)
MaxRels == 3        \* relation records over the three relation files
MaxPolySenses == 2  \* sense records of the vocabulary-classification specification
MaxRwSenses == 2    \* sense records of the relation-expansion specification
MaxRwRels == 3      \* relation records of the relation-expansion specification
MaxSynSenses == 3   \* noun sense records of the synonym specification

(***************************************************************************)
(* Strings of the program.                                                 *)
(***************************************************************************)
PosSet == {"N", "V", "A"}
NoSuchWord == "No such word in RuWordNet"
NoSuchSynset == "No such synset in the thesaurus"

\* str.lower() on the words of the model: the capitalised words fold to
\* their lower-case form, every other string is already lower case.
Lower(s) ==
    CASE s = "Luk" -> "luk"
      [] s = "Dom" -> "dom"
      [] OTHER -> s

(***************************************************************************)
(* Python dict and list primitives.                                        *)
(***************************************************************************)
EmptyDict == [k \in {} |-> k]

\* d[k] = v
DictSet(d, k, v) == [x \in (DOMAIN d) \cup {k} |-> IF x = k THEN v ELSE d[x]]

\* x in lst
InList(x, lst) == \E i \in DOMAIN lst : lst[i] = x

\* lst.remove(x) for x in lst: deletes the first occurrence
ListRemove(lst, x) ==
    LET i == CHOOSE j \in DOMAIN lst :
                 lst[j] = x /\ \A k \in 1..(j - 1) : lst[k] # x
    IN  SubSeq(lst, 1, i - 1) \o SubSeq(lst, i + 1, Len(lst))

Ok(v) == [tag |-> "ok", val |-> v]
Raise(e) == [tag |-> "raise", exc |-> e]

(***************************************************************************)
(* Index Builder.                                                          *)
(***************************************************************************)
RECURSIVE create_word_synset_loop(_, _, _, _)
create_word_synset_loop(sns, i, synset_dict, synonyms) ==
    IF i > Len(sns) THEN <<synset_dict, synonyms>>
    ELSE LET child == sns[i]
             name  == Lower(child.name)
             sd0   == IF name \notin DOMAIN synset_dict
                      THEN DictSet(synset_dict, name, <<>>) ELSE synset_dict
             sd1   == DictSet(sd0, name, Append(sd0[name], child.synset_id))
             sy0   == IF child.synset_id \notin DOMAIN synonyms
                      THEN DictSet(synonyms, child.synset_id, <<>>) ELSE synonyms
             sy1   == DictSet(sy0, child.synset_id, Append(sy0[child.synset_id], name))
         IN  create_word_synset_loop(sns, i + 1, sd1, sy1)

\* returns <<{word: synsets}, {synset: words}>>
create_word_synset_map(sns) == create_word_synset_loop(sns, 1, EmptyDict, EmptyDict)

RECURSIVE extract_synset_definitions_loop(_, _, _)
extract_synset_definitions_loop(syns, i, definitions) ==
    IF i > Len(syns) THEN definitions
    ELSE extract_synset_definitions_loop(syns, i + 1,
             DictSet(definitions, syns[i].id,
                     [ruthes_name |-> syns[i].ruthes_name,
                      definition  |-> syns[i].definition]))

extract_synset_definitions(syns) == extract_synset_definitions_loop(syns, 1, EmptyDict)

\* One iteration of the inner loop of get_basic_relations: st is
\* <<relatives_dict_new, par_id_prev>>.  par_id_prev starts as '' in every
\* file; the parent ids of the model are non-empty synset ids, so the first
\* record of a file always takes the else branch.
get_basic_relations_step(st, child) ==
    LET d    == st[1]
        prev == st[2]
        p    == child.parent_id
    IN  IF prev = p
        THEN IF child.name \in DOMAIN d[p]
             THEN <<DictSet(d, p, DictSet(d[p], child.name,
                                          Append(d[p][child.name], child.child_id))),
                    prev>>
             ELSE <<DictSet(d, p, DictSet(d[p], child.name, <<child.child_id>>)), p>>
        ELSE <<DictSet(d, p, DictSet(EmptyDict, child.name, <<child.child_id>>)), p>>

RECURSIVE get_basic_relations_file(_, _, _)
get_basic_relations_file(root, i, st) ==
    IF i > Len(root) THEN st
    ELSE get_basic_relations_file(root, i + 1, get_basic_relations_step(st, root[i]))

RECURSIVE get_basic_relations_loop(_, _, _)
get_basic_relations_loop(files, f, d) ==
    IF f > Len(files) THEN d
    ELSE get_basic_relations_loop(files, f + 1,
             get_basic_relations_file(files[f], 1, <<d, "">>)[1])

get_basic_relations(files) == get_basic_relations_loop(files, 1, EmptyDict)

\* The object as __init__ leaves it, for sense records s, synset records y
\* (both keyed by part of speech) and relation files r.
Construct(s, y, r) ==
    /\ senses = s
    /\ synsets = y
    /\ rel_files = r
    /\ word_synset = [p \in PosSet |-> create_word_synset_map(s[p])[1]]
    /\ synset_word = [p \in PosSet |-> create_word_synset_map(s[p])[2]]
    /\ defin = [p \in PosSet |-> extract_synset_definitions(y[p])]
    /\ basic_relations = get_basic_relations(r)
    /\ built = [word_synset |-> [p \in PosSet |-> create_word_synset_map(s[p])[1]],
                synset_word |-> [p \in PosSet |-> create_word_synset_map(s[p])[2]],
                defin       |-> [p \in PosSet |-> extract_synset_definitions(y[p])],
                basic_relations |-> get_basic_relations(r)]
    /\ call = <<"__init__">>
    /\ result = Ok("None")

(***************************************************************************)
(* Lookup Engine.  The read-only methods are operators over the current    *)
(* indexes; show_synonyms, which writes, threads synset_word through its   *)
(* loop.                                                                   *)
(***************************************************************************)
extract_synsets_of(word) ==
    IF word \in DOMAIN word_synset["N"] THEN word_synset["N"][word]
    ELSE IF word \in DOMAIN word_synset["V"] THEN word_synset["V"][word]
    ELSE IF word \in DOMAIN word_synset["A"] THEN word_synset["A"][word]
    ELSE <<NoSuchWord>>

WordKnown(word) == \E p \in PosSet : word \in DOMAIN word_synset[p]

show_synset_definitions(synset_number) ==
    IF synset_number \in DOMAIN defin["N"] THEN defin["N"][synset_number]
    ELSE IF synset_number \in DOMAIN defin["N"] THEN defin["N"][synset_number]
    ELSE IF synset_number \in DOMAIN defin["N"] THEN defin["N"][synset_number]
    ELSE EmptyDict

extract_word_synset_number(word, full_info) ==
    LET synsets_ == extract_synsets_of(word)
    IN  IF ~WordKnown(word) THEN <<NoSuchWord>>
        ELSE IF full_info
             THEN [i \in DOMAIN synsets_ |->
                      <<synsets_[i], show_synset_definitions(synsets_[i])>>]
             ELSE synsets_

\* The list object show_synset_words returns: the partition whose stored
\* list it is, or "none" for the freshly made not-found list.
WordsRef(sw, synset_number) ==
    IF synset_number \in DOMAIN sw["N"] THEN "N"
    ELSE IF synset_number \in DOMAIN sw["V"] THEN "V"
    ELSE IF synset_number \in DOMAIN sw["A"] THEN "A"
    ELSE "none"

show_synset_words_in(sw, synset_number) ==
    IF WordsRef(sw, synset_number) = "none" THEN <<NoSuchSynset>>
    ELSE sw[WordsRef(sw, synset_number)][synset_number]

show_synset_words(synset_number) == show_synset_words_in(synset_word, synset_number)

\* The loop of show_synonyms from its i-th synset on.  sw is synset_word as
\* the earlier iterations left it; out holds, per entry, the list object the
\* entry's 'synonyms' refers to (ref, or own for a list no index holds).
\* Returns the final synset_word and the call's outcome; the entries of a
\* returned list show their list objects as they are on return.
RECURSIVE show_synonyms_loop(_, _, _, _, _)
show_synonyms_loop(word, syns, i, sw, out) ==
    IF i > Len(syns)
    THEN [sw  |-> sw,
          res |-> Ok([j \in DOMAIN out |->
                        [synset_id   |-> out[j].synset_id,
                         synonyms    |-> IF out[j].ref = "none" THEN out[j].own
                                         ELSE sw[out[j].ref][out[j].synset_id],
                         ruthes_name |-> out[j].ruthes_name]])]
    ELSE LET syn      == syns[i]
             ref      == WordsRef(sw, syn)
             synonyms == show_synset_words_in(sw, syn)
             removed  == IF InList(word, synonyms) THEN ListRemove(synonyms, word)
                         ELSE synonyms
             sw1      == IF ref = "none" THEN sw
                         ELSE [sw EXCEPT ![ref][syn] = removed]
             d        == show_synset_definitions(syn)
         IN  IF "ruthes_name" \notin DOMAIN d
             THEN [sw |-> sw1, res |-> Raise("KeyError")]
             ELSE show_synonyms_loop(word, syns, i + 1, sw1,
                      Append(out, [synset_id |-> syn, ref |-> ref, own |-> removed,
                                   ruthes_name |-> d.ruthes_name]))

show_synonyms(word) ==
    IF ~WordKnown(word) THEN [sw |-> synset_word, res |-> Ok(NoSuchWord)]
    ELSE show_synonyms_loop(word, extract_synsets_of(word), 1, synset_word, <<>>)

show_basic_synset_relations(synset_number) ==
    IF synset_number \in DOMAIN basic_relations THEN basic_relations[synset_number]
    ELSE EmptyDict

\* flat_words with the extend turned into an assignment: every target
\* overwrites the list of its relation.
RECURSIVE flat_words_overwrite(_, _, _)
flat_words_overwrite(synsets_, i, acc) ==
    IF i > Len(synsets_) THEN acc
    ELSE flat_words_overwrite(synsets_, i + 1, show_synset_words(synsets_[i]))

\* relatives_dict_words[relation] after the inner loop over synsets_[i..],
\* print_synsets = False: acc extended by the words of each target.
RECURSIVE flat_words(_, _, _)
flat_words(synsets_, i, acc) ==
    IF i > Len(synsets_) THEN acc
    ELSE flat_words(synsets_, i + 1, acc \o show_synset_words(synsets_[i]))

\* The same with print_synsets = True: acc is {target: words}.
RECURSIVE nested_words(_, _, _)
nested_words(synsets_, i, acc) ==
    IF i > Len(synsets_) THEN acc
    ELSE LET syn == synsets_[i]
             a0  == IF syn \notin DOMAIN acc THEN DictSet(acc, syn, <<>>) ELSE acc
         IN  nested_words(synsets_, i + 1,
                 DictSet(a0, syn, a0[syn] \o show_synset_words(syn)))

show_synset_relations_with_words(synset_number, print_synsets, relations) ==
    LET relatives_dict == show_basic_synset_relations(synset_number)
        \* a relation gets its key on the first target of its list
        relatives_dict_words ==
            [relation \in {r \in DOMAIN relatives_dict : relatives_dict[r] # <<>>} |->
                IF print_synsets
                THEN nested_words(relatives_dict[relation], 1, EmptyDict)
                ELSE flat_words(relatives_dict[relation], 1, <<>>)]
    IN  IF relatives_dict = EmptyDict THEN EmptyDict
        ELSE IF relations = "all" THEN relatives_dict_words
        ELSE [relation \in {relations[i] : i \in DOMAIN relations}
                               \cap DOMAIN relatives_dict_words |->
                 relatives_dict_words[relation]]

\* show_word_closest_relatives without the test for the not-found list
\* before its loop over the synsets of the word.
show_word_closest_relatives_unchecked(word, synset, relations, print_synsets) ==
    IF synset # ""
    THEN [val     |-> show_synset_relations_with_words(synset, print_synsets, relations),
          printed |-> ~InList(synset, extract_word_synset_number(word, FALSE))]
    ELSE LET synsets_ == extract_word_synset_number(word, FALSE)
         IN  [val |-> [syn \in {synsets_[i] : i \in DOMAIN synsets_} |->
                          show_synset_relations_with_words(syn, print_synsets, relations)],
              printed |-> FALSE]

\* returns [val |-> the mapping, printed |-> whether the inconsistency
\* message was printed]
show_word_closest_relatives(word, synset, relations, print_synsets) ==
    IF synset # ""
    THEN [val     |-> show_synset_relations_with_words(synset, print_synsets, relations),
          printed |-> ~InList(synset, extract_word_synset_number(word, FALSE))]
    ELSE LET synsets_ == extract_word_synset_number(word, FALSE)
         IN  [val |-> IF synsets_ # <<NoSuchWord>>
                      THEN [syn \in {synsets_[i] : i \in DOMAIN synsets_} |->
                               show_synset_relations_with_words(syn, print_synsets,
                                                                relations)]
                      ELSE EmptyDict,
              printed |-> FALSE]

\* The scan shared by extract_polysesmous_words (poly = TRUE: mean != '1')
\* and extract_monosesmous_words (poly = FALSE: mean == '1').
RECURSIVE scan_words(_, _, _, _, _)
scan_words(sns, i, output, poly, words) ==
    IF i > Len(sns) THEN words
    ELSE LET child == sns[i]
             mean  == child.meaning
             name  == IF output = "lemmas" THEN Lower(child.lemma)
                      ELSE Lower(child.name)
             hit   == IF poly THEN mean # "1" ELSE mean = "1"
         IN  scan_words(sns, i + 1, output, poly,
                 IF ~InList(name, words) /\ hit THEN Append(words, name) ELSE words)

PosTag(pos) ==
    IF pos = "Noun" THEN "N" ELSE IF pos = "Verb" THEN "V"
    ELSE IF pos = "Adj" THEN "A" ELSE "invalid"

extract_polysesmous_words(pos, output) ==
    IF PosTag(pos) = "invalid" THEN <<>>
    ELSE scan_words(senses[PosTag(pos)], 1, output, TRUE, <<>>)

extract_monosesmous_words(pos, output) ==
    IF PosTag(pos) = "invalid" THEN <<>>
    ELSE scan_words(senses[PosTag(pos)], 1, output, FALSE, <<>>)

(***************************************************************************)
(* Record Source: bounded families of input records.                       *)
(***************************************************************************)
SeqsOf(S, n) == [1..n -> S]

Splits(n) == {t \in (0..n) \X (0..n) \X (0..n) : t[1] + t[2] + t[3] <= n}

\* at most n records of R over the files of the three parts of speech
ByPos(R, n) ==
    UNION {[N : SeqsOf(R, t[1]), V : SeqsOf(R, t[2]), A : SeqsOf(R, t[3])] :
           t \in Splits(n)}

\* at most n records of R over the three relation files, in reading order
ByFile(R, n) ==
    UNION {SeqsOf(R, t[1]) \X SeqsOf(R, t[2]) \X SeqsOf(R, t[3]) : t \in Splits(n)}

\* records filed under the part of speech their id starts with, as the
\* thesaurus files are laid out: "N1" in the N file, "V1" in the V file
PosOfId == [N1 |-> "N", V1 |-> "V"]

NoRecords == [p \in PosSet |-> <<>>]
NoRelations == <<<<>>, <<>>, <<>>>>

Words == {"luk", "Luk", "dom"}
QueryWords == {"luk", "Luk", "dom", "zzz"}
SynsetIds == {"N1", "V1"}
QuerySynsets == {"N1", "V1", "N9"}
Labels == {"hypernym", "domain"}

SenseRecs == [name : Words, synset_id : SynsetIds, meaning : {"1"}, lemma : {"luk"}]
SynsetRecs == [id : SynsetIds, ruthes_name : {"LUK", "DOM"}, definition : {""}]

(***************************************************************************)
(* The lookup methods as actions.                                          *)
(***************************************************************************)
ReadOnly == UNCHANGED <<senses, synsets, rel_files, word_synset, synset_word, defin,
                        basic_relations, built>>

ExtractWordSynsetNumber ==
    \E word \in QueryWords, full_info \in BOOLEAN :
        /\ call' = <<"extract_word_synset_number", word, full_info>>
        /\ result' = Ok(extract_word_synset_number(word, full_info))
        /\ ReadOnly

ShowSynsetDefinitions ==
    \E synset_number \in QuerySynsets :
        /\ call' = <<"show_synset_definitions", synset_number>>
        /\ result' = Ok(show_synset_definitions(synset_number))
        /\ ReadOnly

ShowSynsetWords ==
    \E synset_number \in QuerySynsets :
        /\ call' = <<"show_synset_words", synset_number>>
        /\ result' = Ok(show_synset_words(synset_number))
        /\ ReadOnly

ShowSynonyms ==
    \E word \in QueryWords :
        /\ call' = <<"show_synonyms", word>>
        /\ result' = show_synonyms(word).res
        /\ synset_word' = show_synonyms(word).sw
        /\ UNCHANGED <<senses, synsets, rel_files, word_synset, defin,
                       basic_relations, built>>

ShowBasicSynsetRelations ==
    \E synset_number \in QuerySynsets :
        /\ call' = <<"show_basic_synset_relations", synset_number>>
        /\ result' = Ok(show_basic_synset_relations(synset_number))
        /\ ReadOnly

RelationFilters == {"all", <<"hypernym", "antonym">>}

ShowSynsetRelationsWithWords ==
    \E synset_number \in QuerySynsets, print_synsets \in BOOLEAN,
       relations \in RelationFilters :
        /\ call' = <<"show_synset_relations_with_words", synset_number,
                     print_synsets, relations>>
        /\ result' = Ok(show_synset_relations_with_words(synset_number, print_synsets,
                                                         relations))
        /\ ReadOnly

ShowWordClosestRelatives ==
    \E word \in {"luk", "zzz"}, synset \in {"", "N1"}, print_synsets \in BOOLEAN,
       relations \in RelationFilters :
        /\ call' = <<"show_word_closest_relatives", word, synset, relations,
                     print_synsets>>
        /\ result' = Ok(show_word_closest_relatives(word, synset, relations,
                                                    print_synsets).val)
        /\ ReadOnly

PosTags == {"Noun", "Verb", "Adj", "Adverb"}
OutputForms == {"lemmas", "words"}

ExtractPolysesmousWords ==
    \E pos \in PosTags, output \in OutputForms :
        /\ call' = <<"extract_polysesmous_words", pos, output>>
        /\ result' = Ok(extract_polysesmous_words(pos, output))
        /\ ReadOnly

ExtractMonosesmousWords ==
    \E pos \in PosTags, output \in OutputForms :
        /\ call' = <<"extract_monosesmous_words", pos, output>>
        /\ result' = Ok(extract_monosesmous_words(pos, output))
        /\ ReadOnly

(***************************************************************************)
(* Spec: word, synset and definition lookups over any sense and synset     *)
(* records.                                                                *)
(***************************************************************************)
Init ==
    \E s \in ByPos(SenseRecs, MaxSenses), y \in ByPos(SynsetRecs, MaxSynsets) :
        Construct(s, y, NoRelations)

Next ==
    \/ ExtractWordSynsetNumber
    \/ ShowSynsetDefinitions
    \/ ShowSynsetWords
    \/ ShowSynonyms

Spec == Init /\ [][Next]_vars

(***************************************************************************)
(* SpecRel: the relation adjacency over any relation records.              *)
(***************************************************************************)
RelRecs == [parent_id : {"N1", "V1"}, name : Labels, child_id : {"N2", "V1", "A1"}]

InitRel ==
    \E r \in ByFile(RelRecs, MaxRels) : Construct(NoRecords, NoRecords, r)

NextRel == ShowBasicSynsetRelations

SpecRel == InitRel /\ [][NextRel]_vars

(***************************************************************************)
(* SpecPoly: the vocabulary scans over any sense records.                  *)
(***************************************************************************)
PolySenseRecs == [name : {"dom", "Luk"}, synset_id : {"N1"}, meaning : {"1", "2"},
                  lemma : {"dom", "luk"}]

InitPoly ==
    \E s \in ByPos(PolySenseRecs, MaxPolySenses) :
        Construct(s, NoRecords, NoRelations)

NextPoly ==
    \/ ExtractPolysesmousWords
    \/ ExtractMonosesmousWords

SpecPoly == InitPoly /\ [][NextPoly]_vars

(***************************************************************************)
(* SpecRW: relation expansion, over sense and relation records filed by    *)
(* the part of speech of their synset.                                     *)
(***************************************************************************)
RwSenseRecs == [name : {"luk"}, synset_id : SynsetIds, meaning : {"1"}, lemma : {"luk"}]
RwRelRecs == [parent_id : {"N1"}, name : Labels, child_id : {"V1", "N9"}]
RwSynsets == [N |-> <<[id |-> "N1", ruthes_name |-> "LUK", definition |-> ""]>>,
              V |-> <<>>, A |-> <<>>]

FiledSenses(s) ==
    [p \in PosSet |-> LET Keep(rec) == PosOfId[rec.synset_id] = p
                      IN  SelectSeq(s, Keep)]

\* reading order of the relation files: N, A, V
FiledRelations(r) ==
    [f \in 1..3 |-> LET Keep(rec) == PosOfId[rec.parent_id] = <<"N", "A", "V">>[f]
                    IN  SelectSeq(r, Keep)]

InitRW ==
    \E n \in 0..MaxRwSenses, m \in 0..MaxRwRels :
        \E s \in SeqsOf(RwSenseRecs, n), r \in SeqsOf(RwRelRecs, m) :
            Construct(FiledSenses(s), RwSynsets, FiledRelations(r))

NextRW ==
    \/ ShowSynsetRelationsWithWords
    \/ ShowWordClosestRelatives
    \/ ShowSynonyms

SpecRW == InitRW /\ [][NextRW]_vars

(***************************************************************************)
(* SpecSyn: synonym lookups over noun sense records whose synsets all have *)
(* a definition.                                                           *)
(***************************************************************************)
SynSenseRecs == [name : Words, synset_id : {"N1", "N2"}, meaning : {"1"}, lemma : {"luk"}]
SynSynsets == [N |-> <<[id |-> "N1", ruthes_name |-> "LUK", definition |-> ""],
                       [id |-> "N2", ruthes_name |-> "DOM", definition |-> ""]>>,
               V |-> <<>>, A |-> <<>>]

InitSyn ==
    \E n \in 0..MaxSynSenses :
        \E s \in SeqsOf(SynSenseRecs, n) :
            Construct([N |-> s, V |-> <<>>, A |-> <<>>], SynSynsets, NoRelations)

NextSyn ==
    \/ ShowSynonyms
    \/ ShowSynsetWords

SpecSyn == InitSyn /\ [][NextSyn]_vars

(***************************************************************************)
(* Vocabulary of the properties.                                           *)
(***************************************************************************)
Range(s) == {s[i] : i \in DOMAIN s}

Called(m) == call[1] = m

\* every relation record, in the order the build reads them
AllRelRecords == rel_files[1] \o rel_files[2] \o rel_files[3]

\* the child_ids of the records (parent, label, _) of recs, in order
RECURSIVE ChildrenOf(_, _, _)
ChildrenOf(recs, parent, label) ==
    IF recs = <<>> THEN <<>>
    ELSE (IF Head(recs).parent_id = parent /\ Head(recs).name = label
          THEN <<Head(recs).child_id>> ELSE <<>>)
         \o ChildrenOf(Tail(recs), parent, label)

\* d[label], or the empty list for a label d does not have
AtLabel(d, label) == IF label \in DOMAIN d THEN d[label] ELSE <<>>

\* the sense records of every part of speech
AllSenseRecords == UNION {Range(senses[p]) : p \in PosSet}

\* the lower-cased names the sense records give synset t
MemberWords(t) == {Lower(rec.name) : rec \in {x \in AllSenseRecords : x.synset_id = t}}

\* the first of the noun, verb and adjective maps d that has key k
FirstHit(d, k) ==
    IF k \in DOMAIN d["N"] THEN "N"
    ELSE IF k \in DOMAIN d["V"] THEN "V"
    ELSE IF k \in DOMAIN d["A"] THEN "A"
    ELSE "none"

\* lst without its first occurrence of x (lst itself when x is not in it)
RECURSIVE WithoutFirst(_, _)
WithoutFirst(lst, x) ==
    IF lst = <<>> THEN <<>>
    ELSE IF Head(lst) = x THEN Tail(lst)
    ELSE <<Head(lst)>> \o WithoutFirst(Tail(lst), x)

\* the current member lists of the targets, one after the other
RECURSIVE ConcatWordsOf(_)
ConcatWordsOf(targets) ==
    IF targets = <<>> THEN <<>>
    ELSE LET p == FirstHit(synset_word, Head(targets))
         IN  (IF p = "none" THEN <<NoSuchSynset>> ELSE synset_word[p][Head(targets)])
             \o ConcatWordsOf(Tail(targets))

\* the labels a relation filter asks for, among those of d
Requested(relations, d) ==
    IF relations = "all" THEN DOMAIN d ELSE Range(relations) \cap DOMAIN d

(***************************************************************************)
(* C1.  show_basic_synset_relations(P) maps every label L to the child_ids *)
(* of all relation records (P, L, child), in input order, however the      *)
(* records of P are spread over the input: grouping is by equality of      *)
(* parent_id, not by contiguous runs.                                      *)
(***************************************************************************)
C1_GroupedByEquality ==
    Called("show_basic_synset_relations") =>
        \A label \in Labels :
            AtLabel(result.val, label) = ChildrenOf(AllRelRecords, call[2], label)

(***************************************************************************)
(* C2.  After any sequence of lookup calls the four index families equal   *)
(* what the build produced.                                                *)
(***************************************************************************)
C2_IndexesImmutable ==
    /\ word_synset = built.word_synset
    /\ synset_word = built.synset_word
    /\ defin = built.defin
    /\ basic_relations = built.basic_relations

(***************************************************************************)
(* C3.  Inverse index: for every ingested sense record (name, synset_id),  *)
(* extract_word_synset_number(name) contains synset_id and                 *)
(* show_synset_words(synset_id) contains lowercase(name).                  *)
(***************************************************************************)
C3_InverseIndex ==
    /\ (Called("extract_word_synset_number") /\ ~call[3]) =>
           \A rec \in AllSenseRecords :
               rec.name = call[2] => InList(rec.synset_id, result.val)
    /\ Called("show_synset_words") =>
           \A rec \in AllSenseRecords :
               rec.synset_id = call[2] => InList(Lower(rec.name), result.val)

(***************************************************************************)
(* C4.  Called on the freshly built index, show_synonyms(word) returns for *)
(* each synset the built member list with exactly the first occurrence of  *)
(* word deleted.                                                           *)
(***************************************************************************)
C4_FirstOccurrenceOnly ==
    [][(/\ synset_word = built.synset_word
        /\ call'[1] = "show_synonyms"
        /\ result'.tag = "ok"
        /\ WordKnown(call'[2]))
       => \A j \in DOMAIN result'.val :
              LET s == result'.val[j].synset_id
              IN  result'.val[j].synonyms =
                      WithoutFirst(built.synset_word[FirstHit(built.synset_word, s)][s],
                                   call'[2])]_vars

(***************************************************************************)
(* C5.  show_synset_definitions returns the definition of the first of the *)
(* noun, verb and adjective maps that holds the id, and the empty result   *)
(* only when none of them does.                                            *)
(***************************************************************************)
C5_ProbesAllThreeMaps ==
    Called("show_synset_definitions") =>
        LET p == FirstHit(defin, call[2])
        IN  result.val = IF p = "none" THEN EmptyDict ELSE defin[p][call[2]]

(***************************************************************************)
(* C6.  The polysemous and the monosemous words of a part of speech are    *)
(* disjoint and together are the lower-cased lemmas (or names) of its      *)
(* sense records.                                                          *)
(***************************************************************************)
C6_PolyMonoPartition ==
    (Called("extract_polysesmous_words") /\ PosTag(call[2]) # "invalid") =>
        LET poly == Range(result.val)
            mono == Range(extract_monosesmous_words(call[2], call[3]))
            all  == {IF call[3] = "lemmas" THEN Lower(rec.lemma) ELSE Lower(rec.name) :
                     rec \in Range(senses[PosTag(call[2])])}
        IN  poly \cap mono = {} /\ poly \cup mono = all

(***************************************************************************)
(* C7.  No lookup raises: every call returns a value.                      *)
(***************************************************************************)
C7_NoLookupRaises == result.tag = "ok"

(***************************************************************************)
(* C8.  extract_word_synset_number(w) equals                               *)
(* extract_word_synset_number(lowercase(w)).                               *)
(***************************************************************************)
C8_CaseInsensitive ==
    Called("extract_word_synset_number") =>
        result.val = extract_word_synset_number(Lower(call[2]), call[3])

(***************************************************************************)
(* C9 as stated.  show_word_closest_relatives returns the empty mapping    *)
(* whenever the word is in none of the three word->synsets maps, whatever  *)
(* the synset argument.                                                    *)
(***************************************************************************)
C9_EmptyForUnknownWord ==
    (Called("show_word_closest_relatives") /\ ~WordKnown(call[2])) =>
        result.val = EmptyDict

(***************************************************************************)
(* C9 amended.  For a word in none of the three maps,                      *)
(* show_word_closest_relatives returns the empty mapping when the synset   *)
(* argument is omitted, and the relations of the supplied synset (empty    *)
(* only if that synset has none to show) when it is given.                 *)
(***************************************************************************)
C9_EmptyForUnknownWordNoSynset ==
    (Called("show_word_closest_relatives") /\ ~WordKnown(call[2])) =>
        IF call[3] = "" THEN result.val = EmptyDict
        ELSE DOMAIN result.val =
                 Requested(call[4], show_basic_synset_relations(call[3]))

C9_Witness ==
    /\ Called("show_word_closest_relatives")
    /\ ~WordKnown(call[2])
    /\ call[3] = ""
    /\ result.val = EmptyDict
    /\ \E p \in PosSet : word_synset[p] # EmptyDict
    /\ basic_relations # EmptyDict

(***************************************************************************)
(* C10 as stated.  With print_synsets = False,                             *)
(* show_synset_relations_with_words returns exactly the requested labels   *)
(* the synset has, each mapped to the concatenation in target order of the *)
(* targets' member lists, so that every element of every list is a member  *)
(* word of one of the label's targets.                                     *)
(***************************************************************************)
C10_KeysAndConcatenation ==
    (Called("show_synset_relations_with_words") /\ ~call[3]) =>
        LET d == show_basic_synset_relations(call[2])
        IN  /\ DOMAIN result.val = Requested(call[4], d)
            /\ \A label \in DOMAIN result.val :
                   result.val[label] = ConcatWordsOf(d[label])

C10_FlatWordsAreMembers ==
    /\ C10_KeysAndConcatenation
    /\ (Called("show_synset_relations_with_words") /\ ~call[3]) =>
           \A label \in DOMAIN result.val :
               \A w \in Range(result.val[label]) :
                   \E t \in Range(show_basic_synset_relations(call[2])[label]) :
                       w \in MemberWords(t)

(***************************************************************************)
(* C10 amended.  The key set and the concatenation are as stated; every    *)
(* element of a returned list is a member word of one of the label's       *)
(* targets or, for a target that is a key of no synset->words map, the     *)
(* string "No such synset in the thesaurus".                               *)
(***************************************************************************)
C10_FlatWordsAreMembersOrNotFound ==
    /\ C10_KeysAndConcatenation
    /\ (Called("show_synset_relations_with_words") /\ ~call[3]) =>
           \A label \in DOMAIN result.val :
               \A w \in Range(result.val[label]) :
                   \E t \in Range(show_basic_synset_relations(call[2])[label]) :
                       \/ w \in MemberWords(t)
                       \/ w = NoSuchSynset /\ FirstHit(synset_word, t) = "none"

C10_Witness ==
    /\ Called("show_synset_relations_with_words")
    /\ ~call[3]
    /\ call[4] # "all"
    /\ Cardinality(DOMAIN show_basic_synset_relations(call[2])) = 2
    /\ DOMAIN result.val = {"hypernym"}
    /\ Len(show_basic_synset_relations(call[2])["hypernym"]) = 2
    /\ \E i \in DOMAIN result.val["hypernym"] :
           result.val["hypernym"][i] # NoSuchSynset

====
